---- MODULE Spec2Model ----
(***************************************************************************)
(* Bulk ingestion, event matching and batch document assembly of the       *)
(* TotalHealth LOR/LOA generator (services/excel_processor.py).            *)
(*                                                                         *)
(* Text is a sequence of one-character strings, so that strip, lower,      *)
(* replace and slicing are computed as Python computes them.               *)
(***************************************************************************)
EXTENDS Integers, Sequences, FiniteSets, TLC

VARIABLES
    pc,               \* where the caller stands in parse -> match -> generate -> report
    file_obj,         \* the uploaded table: raw headers and data rows
    all_events,       \* the canonical event registry, get_all_events()
    rows,             \* List[ExcelRow] handed from stage to stage
    errors,           \* the errors list returned by parse_excel_file
    parse_row_calls,  \* row numbers _parse_row was invoked with, in call order
    did_match,        \* match_events has run on rows
    document_type,    \* argument of generate_batch_documents
    signatory_key,    \* argument of generate_batch_documents
    idx,              \* position of the for loop of generate_batch_documents
    success_count,
    error_count,
    zipf,             \* entries of the archive, in write order
    payloads,         \* DocumentPayload objects built, in order
    renders,          \* calls of generate_lor_documents / generate_loa_documents
    visited,          \* per visited row: how the loop body left it
    report,           \* result of generate_validation_report
    faulty_buffers,   \* the generators may hand back a buffer whose getvalue() raises
    events_table,     \* rows of the events table of EventDatabase, in rowid order
    sqlite_sequence,  \* largest id the AUTOINCREMENT key has handed out
    db_call,          \* the last EventDatabase call: its argument, what raised, what
                      \* it returned
    templates,        \* files of templates_dir: template_id -> stored template
    template_call,    \* the last TemplateManager call, what it returned, and whether
                      \* only delete_template calls followed the last construction
    other_run         \* a second upload going through the pipeline on the same registry

vars == <<pc, file_obj, all_events, rows, errors, parse_row_calls, did_match,
          document_type, signatory_key, idx, success_count, error_count,
          zipf, payloads, renders, visited, report,
                   faulty_buffers, events_table, sqlite_sequence, db_call, templates,
                   template_call, other_run>>

(***************************************************************************)
(* Bounds of the model                                                     *)
(***************************************************************************)
\* data rows of a batch table, columns of a header row, data rows under it
MaxRows == 2
MaxCols == 3
MaxSchemaRows == 1

(***************************************************************************)
(* Python values: None, str, int; pandas NaN for an empty cell             *)
(***************************************************************************)
None   == [t |-> "none", s |-> <<>>, n |-> 0]
NaN    == [t |-> "nan",  s |-> <<>>, n |-> 0]
Str(x) == [t |-> "str",  s |-> x,    n |-> 0]
Num(k) == [t |-> "int",  s |-> <<>>, n |-> k]

\* bool(x)
Truthy(x) ==
    CASE x.t = "str" -> Len(x.s) > 0
      [] x.t = "int" -> x.n # 0
      [] OTHER       -> FALSE

Digit(d) == <<"0","1","2","3","4","5","6","7","8","9">>[d + 1]

RECURSIVE NatToStr(_)
NatToStr(k) == IF k < 10 THEN <<Digit(k)>>
               ELSE NatToStr(k \div 10) \o <<Digit(k % 10)>>

\* str(x) for an int or a str
PyStr(x) ==
    CASE x.t = "str" -> x.s
      [] x.t = "int" -> IF x.n < 0 THEN <<"-">> \o NatToStr(-x.n) ELSE NatToStr(x.n)
      [] OTHER       -> <<"N","o","n","e">>

\* x or y
PyOr(x, y) == IF Truthy(x) THEN x ELSE y

(***************************************************************************)
(* str.lower, str.strip, str.replace, slicing                              *)
(***************************************************************************)
UpperCase == <<"A","B","C","D","E","F","G","H","I","J","K","L","M",
               "N","O","P","Q","R","S","T","U","V","W","X","Y","Z">>
LowerCase == <<"a","b","c","d","e","f","g","h","i","j","k","l","m",
               "n","o","p","q","r","s","t","u","v","w","x","y","z">>

LowerChar(c) ==
    IF \E i \in 1..Len(UpperCase) : UpperCase[i] = c
    THEN LowerCase[CHOOSE i \in 1..Len(UpperCase) : UpperCase[i] = c]
    ELSE c

Lower(s) == [i \in 1..Len(s) |-> LowerChar(s[i])]

Whitespace == {" "}

RECURSIVE LStrip(_)
LStrip(s) == IF s # <<>> /\ Head(s) \in Whitespace THEN LStrip(Tail(s)) ELSE s

RECURSIVE RStrip(_)
RStrip(s) == IF s # <<>> /\ s[Len(s)] \in Whitespace
             THEN RStrip(SubSeq(s, 1, Len(s) - 1)) ELSE s

Strip(s) == RStrip(LStrip(s))

\* s.replace(old, new) for one-character old and new
Replace(s, old, new) == [i \in 1..Len(s) |-> IF s[i] = old THEN new ELSE s[i]]

\* s[:k]
Prefix(s, k) == SubSeq(s, 1, IF Len(s) < k THEN Len(s) ELSE k)

Contains(seq, x) == \E i \in 1..Len(seq) : seq[i] = x

IndexOf(seq, x) == CHOOSE i \in 1..Len(seq) : seq[i] = x /\ \A j \in 1..(i - 1) : seq[j] # x

Count(seq, x) == Cardinality({i \in 1..Len(seq) : seq[i] = x})

\* an error message: a literal prefix followed by interpolated text
Err(prefix, arg) == [prefix |-> prefix, arg |-> arg]

(***************************************************************************)
(* ExcelProcessor.COLUMN_MAPPINGS, in dict order                           *)
(***************************************************************************)
COLUMN_MAPPINGS == <<
    [field |-> "exhibitor_invite", variations |-> <<
        <<"e","x","h","i","b","i","t","o","r"," ","i","n","v","i","t","e">>,
        <<"c","o","m","p","a","n","y">>,
        <<"c","o","m","p","a","n","y"," ","n","a","m","e">>,
        <<"e","x","h","i","b","i","t","o","r">>
    >>],
    [field |-> "event_name", variations |-> <<
        <<"e","v","e","n","t"," ","n","a","m","e">>,
        <<"e","v","e","n","t">>,
        <<"m","e","e","t","i","n","g"," ","n","a","m","e">>,
        <<"m","e","e","t","i","n","g">>
    >>],
    [field |-> "total", variations |-> <<
        <<"t","o","t","a","l">>,
        <<"a","m","o","u","n","t">>,
        <<"t","o","t","a","l"," ","a","m","o","u","n","t">>,
        <<"p","r","i","c","e">>
    >>],
    [field |-> "expected_attendance", variations |-> <<
        <<"e","x","p","e","c","t","e","d"," ","a","t","t","e","n","d","a","n","c","e">>,
        <<"a","t","t","e","n","d","a","n","c","e">>,
        <<"a","t","t","e","n","d","e","e","s">>
    >>],
    [field |-> "date", variations |-> <<
        <<"d","a","t","e">>,
        <<"m","e","e","t","i","n","g"," ","d","a","t","e">>,
        <<"e","v","e","n","t"," ","d","a","t","e">>
    >>],
    [field |-> "city", variations |-> <<
        <<"c","i","t","y">>,
        <<"l","o","c","a","t","i","o","n">>
    >>],
    [field |-> "venue", variations |-> <<
        <<"v","e","n","u","e">>,
        <<"l","o","c","a","t","i","o","n">>
    >>],
    [field |-> "official_address", variations |-> <<
        <<"o","f","f","i","c","i","a","l"," ","a","d","d","r","e","s","s">>,
        <<"a","d","d","r","e","s","s">>,
        <<"c","o","m","p","a","n","y"," ","a","d","d","r","e","s","s">>
    >>],
    [field |-> "amount", variations |-> <<
        <<"a","m","o","u","n","t">>,
        <<"b","o","o","t","h"," ","a","m","o","u","n","t">>
    >>],
    [field |-> "discount", variations |-> <<
        <<"d","i","s","c","o","u","n","t">>
    >>]
>>

Fields == {COLUMN_MAPPINGS[k].field : k \in 1..Len(COLUMN_MAPPINGS)}

Variations(field) ==
    COLUMN_MAPPINGS[CHOOSE k \in 1..Len(COLUMN_MAPPINGS) : COLUMN_MAPPINGS[k].field = field].variations

\* df.columns.str.lower().str.strip()
NormalizeColumns(columns) == [i \in 1..Len(columns) |-> Strip(Lower(columns[i]))]

\* a lookup that walks the synonym list instead: the first listed variation
\* that is a column
FirstListedVariation(columns, field) ==
    LET variations == Variations(field)
    IN  variations[CHOOSE v \in 1..Len(variations) :
                      /\ Contains(columns, variations[v])
                      /\ \A w \in 1..(v - 1) : ~Contains(columns, variations[w])]

\* the inner loop of _build_column_map: the first column that is a variation
FirstMatchingColumn(columns, field) ==
    columns[CHOOSE i \in 1..Len(columns) :
                /\ Contains(Variations(field), columns[i])
                /\ \A j \in 1..(i - 1) : ~Contains(Variations(field), columns[j])]

\* _build_column_map: field -> column, for the fields some column satisfies
BuildColumnMap(columns) ==
    [field \in {f \in Fields : \E i \in 1..Len(columns) : Contains(Variations(f), columns[i])}
        |-> FirstMatchingColumn(columns, field)]

REQUIRED == <<"exhibitor_invite", "event_name", "total">>

\* a variant that reports the first missing column only
MissingColumnsFirstOnly(column_map) ==
    Prefix(SelectSeq(REQUIRED, LAMBDA f : f \notin DOMAIN column_map), 1)

\* [col for col in required if col not in column_map]
MissingColumns(column_map) == SelectSeq(REQUIRED, LAMBDA f : f \notin DOMAIN column_map)

(***************************************************************************)
(* core.models.ExcelRow: a plain record with an append-only errors list    *)
(***************************************************************************)
\* ExcelRow.add_error
add_error(row, e) == [row EXCEPT !.errors = Append(@, e)]

\* ExcelRow.has_errors
has_errors(row) == Len(row.errors) > 0

(***************************************************************************)
(* ExcelProcessor._parse_row                                               *)
(***************************************************************************)
\* get_value(field, default) of _parse_row
get_value(row, columns, column_map, field, default) ==
    IF field \notin DOMAIN column_map THEN default
    ELSE LET val == row[IndexOf(columns, column_map[field])]
         IN  IF val.t = "nan" THEN default
             ELSE IF val.t = "str" THEN Str(Strip(val.s))
             ELSE val

\* row.get(col) is a Series, and `if pd.isna(val)` raises, when two columns
\* carry the same normalized name
SeriesAmbiguous == <<"The truth value of a Series is ambiguous">>

ParseRowRaises(columns, column_map) ==
    \E field \in DOMAIN column_map : Count(columns, column_map[field]) > 1

\* a variant that stops at the first problem (an elif chain)
ValidationErrorsFirstOnly(exhibitor, event, total) ==
    IF ~Truthy(exhibitor) THEN <<Err("Missing company name", <<>>)>>
    ELSE IF ~Truthy(event) THEN <<Err("Missing event name", <<>>)>>
    ELSE IF ~Truthy(total) \/ total = Str(<<"0">>) THEN <<Err("Missing or invalid total", <<>>)>>
    ELSE <<>>

\* the three validation checks, each on its own
ValidationErrors(exhibitor, event, total) ==
    (IF ~Truthy(exhibitor) THEN <<Err("Missing company name", <<>>)>> ELSE <<>>)
    \o (IF ~Truthy(event) THEN <<Err("Missing event name", <<>>)>> ELSE <<>>)
    \o (IF ~Truthy(total) \/ total = Str(<<"0">>)
        THEN <<Err("Missing or invalid total", <<>>)>> ELSE <<>>)

_parse_row(row, columns, column_map, row_number) ==
    LET exhibitor == get_value(row, columns, column_map, "exhibitor_invite", Str(<<>>))
        event     == get_value(row, columns, column_map, "event_name", Str(<<>>))
        total     == get_value(row, columns, column_map, "total", Str(<<"0">>))
    IN  [exhibitor_invite    |-> exhibitor,
         event_name          |-> event,
         total               |-> Str(PyStr(total)),
         company_name        |-> get_value(row, columns, column_map, "exhibitor_invite", None),
         expected_attendance |-> get_value(row, columns, column_map, "expected_attendance", None),
         date                |-> get_value(row, columns, column_map, "date", None),
         city                |-> get_value(row, columns, column_map, "city", None),
         venue               |-> get_value(row, columns, column_map, "venue", None),
         official_address    |-> get_value(row, columns, column_map, "official_address", None),
         amount              |-> get_value(row, columns, column_map, "amount", None),
         discount            |-> get_value(row, columns, column_map, "discount", None),
         row_number          |-> row_number,
         errors              |-> ValidationErrors(exhibitor, event, total),
         matched_event       |-> <<>>]

(***************************************************************************)
(* ExcelProcessor.parse_excel_file                                         *)
(***************************************************************************)
\* ', '.join(missing)
RECURSIVE Join(_)
Join(names) == IF Len(names) <= 1 THEN names
               ELSE <<Head(names), ", ">> \o Join(Tail(names))

\* the for loop over df.iterrows(): a row whose parse raises is reported in
\* errors and left out of rows
RECURSIVE ParseRows(_, _, _, _)
ParseRows(data, columns, column_map, k) ==
    IF k > Len(data) THEN [rows |-> <<>>, errors |-> <<>>, calls |-> <<>>]
    ELSE LET rest == ParseRows(data, columns, column_map, k + 1)
             row_number == (k - 1) + 2
         IN  IF ParseRowRaises(columns, column_map)
             THEN [rows   |-> rest.rows,
                   errors |-> <<Err("Row ", NatToStr(row_number) \o <<": ">> \o SeriesAmbiguous)>>
                              \o rest.errors,
                   calls  |-> <<row_number>> \o rest.calls]
             ELSE [rows   |-> <<_parse_row(data[k], columns, column_map, row_number)>> \o rest.rows,
                   errors |-> rest.errors,
                   calls  |-> <<row_number>> \o rest.calls]

parse_excel_file(file) ==
    LET columns    == NormalizeColumns(file.columns)
        column_map == BuildColumnMap(columns)
        missing    == MissingColumns(column_map)
    IN  IF missing # <<>>
        THEN [rows   |-> <<>>,
              errors |-> <<Err("Missing required columns: ", Join(missing))>>,
              calls  |-> <<>>]
        ELSE ParseRows(file.data, columns, column_map, 1)

(***************************************************************************)
(* services.event_matcher.EventMatcher: similarity-ranked search           *)
(***************************************************************************)
\* the words of a text, lower-cased, whitespace collapsed
RECURSIVE Words(_, _)
Words(s, word) ==
    IF s = <<>> THEN (IF word = <<>> THEN <<>> ELSE <<word>>)
    ELSE IF Head(s) \in Whitespace
         THEN (IF word = <<>> THEN <<>> ELSE <<word>>) \o Words(Tail(s), <<>>)
         ELSE Words(Tail(s), Append(word, LowerChar(Head(s))))

WordSet(s) == LET w == Words(s, <<>>) IN {w[i] : i \in 1..Len(w)}

\* acceptance threshold of the matcher, in percent
MatchThreshold == 60

\* token overlap of the two texts, in percent
Score(text, name) ==
    LET a == WordSet(text)
        b == WordSet(name)
    IN  IF a = {} \/ b = {} THEN 0
        ELSE (200 * Cardinality(a \cap b)) \div (Cardinality(a) + Cardinality(b))

\* EventMatcher.find_best_match: <<>> for None, else <<event>>; the highest
\* score wins, the first listed among equals, if it clears the threshold
find_best_match(text, events) ==
    LET scores == [i \in 1..Len(events) |-> Score(text, events[i].meeting_name)] \o <<>>
        best   == {i \in 1..Len(events) :
                      /\ \A j \in 1..Len(events) : scores[j] <= scores[i]
                      /\ scores[i] >= MatchThreshold}
    IN  IF best = {} THEN <<>>
        ELSE <<events[CHOOSE i \in best : \A j \in best : i <= j]>>

(***************************************************************************)
(* ExcelProcessor.match_events                                             *)
(***************************************************************************)
\* a variant that leaves an unmatched row without its error
MatchRowSilent(row, events) ==
    IF ~Truthy(row.event_name)
    THEN add_error(row, Err("No event name provided", <<>>))
    ELSE LET matched == find_best_match(row.event_name.s, events)
         IN  IF matched # <<>>
             THEN [row EXCEPT !.matched_event =
                      <<[meeting_name      |-> matched[1].meeting_name,
                         meeting_date_long |-> matched[1].meeting_date_long,
                         venue             |-> matched[1].venue,
                         city_state        |-> matched[1].city_state,
                         event_year        |-> matched[1].year]>>]
             ELSE row

\* the body of the for loop, for one row
MatchRow(row, events) ==
    IF ~Truthy(row.event_name)
    THEN add_error(row, Err("No event name provided", <<>>))
    ELSE LET matched == find_best_match(row.event_name.s, events)
         IN  IF matched # <<>>
             THEN [row EXCEPT !.matched_event =
                      <<[meeting_name      |-> matched[1].meeting_name,
                         meeting_date_long |-> matched[1].meeting_date_long,
                         venue             |-> matched[1].venue,
                         city_state        |-> matched[1].city_state,
                         event_year        |-> matched[1].year]>>]
             ELSE add_error(row, Err("Could not match event: ", row.event_name.s))

\* a variant that hands the rows back in reverse
match_events_reversed(rws, events) ==
    [k \in 1..Len(rws) |-> MatchRow(rws[Len(rws) + 1 - k], events)]

match_events(rws, events) == [k \in 1..Len(rws) |-> MatchRow(rws[k], events)]

(***************************************************************************)
(* core.models.ExcelRow.get_total_amount: the amount in cents, or a raise  *)
(***************************************************************************)
Digits == {"0","1","2","3","4","5","6","7","8","9"}

DigitValue(c) == CHOOSE d \in 0..9 : Digit(d) = c

\* the value of a run of digits
RECURSIVE DigitsToNat(_)
DigitsToNat(s) == IF s = <<>> THEN 0
                  ELSE 10 * DigitsToNat(SubSeq(s, 1, Len(s) - 1)) + DigitValue(s[Len(s)])

\* the text without currency symbol, grouping separators and blanks
CleanAmount(s) == SelectSeq(s, LAMBDA c : c \notin {"$", ","} \cup Whitespace)

\* digits, with at most one decimal point among them
WellFormedAmount(s) ==
    /\ \E i \in 1..Len(s) : s[i] \in Digits
    /\ \A i \in 1..Len(s) : s[i] \in Digits \cup {"."}
    /\ Cardinality({i \in 1..Len(s) : s[i] = "."}) <= 1

\* a variant that drops what follows the decimal point
AmountCentsWholeOnly(s) ==
    LET dot == IF Contains(s, ".") THEN IndexOf(s, ".") ELSE Len(s) + 1
    IN  100 * DigitsToNat(SubSeq(s, 1, dot - 1))

\* cents of a well-formed amount: two decimals are kept
AmountCents(s) ==
    LET dot   == IF Contains(s, ".") THEN IndexOf(s, ".") ELSE Len(s) + 1
        whole == SubSeq(s, 1, dot - 1)
        frac  == Prefix(SubSeq(s, dot + 1, Len(s)) \o <<"0", "0">>, 2)
    IN  100 * DigitsToNat(whole) + DigitsToNat(frac)

\* a variant that turns a malformed total into zero instead of raising
get_total_amount_or_zero(row) ==
    LET s == CleanAmount(row.total.s)
    IN  IF WellFormedAmount(s) THEN [raises |-> FALSE, cents |-> AmountCents(s)]
        ELSE [raises |-> FALSE, cents |-> 0]

get_total_amount(row) ==
    LET s == CleanAmount(row.total.s)
    IN  IF WellFormedAmount(s) THEN [raises |-> FALSE, cents |-> AmountCents(s)]
        ELSE [raises |-> TRUE, cents |-> 0]

(***************************************************************************)
(* config.settings.AUTHORIZED_SIGNATORIES                                  *)
(***************************************************************************)
AUTHORIZED_SIGNATORIES ==
    [k \in {"sarah", "michael", "maureen"} |-> [name |-> k, title |-> "title"]]

\* AUTHORIZED_SIGNATORIES.get(signatory_key, AUTHORIZED_SIGNATORIES["sarah"])
SignatoryInfo(key) ==
    IF key \in DOMAIN AUTHORIZED_SIGNATORIES THEN AUTHORIZED_SIGNATORIES[key]
    ELSE AUTHORIZED_SIGNATORIES["sarah"]

(***************************************************************************)
(* ExcelProcessor.generate_batch_documents: the body of the for loop       *)
(***************************************************************************)
\* what the collaborators do for one row: build and render normally, raise
\* in DocumentPayload, or raise in the generator; a generator that breaks its
\* interface hands back a pdf buffer whose getvalue() raises
Behaviours(faulty) ==
    {"ok", "payload_raises", "render_raises"} \cup (IF faulty THEN {"pdf_unusable"} ELSE {})

CollaboratorError == <<"collaborator failed">>
NoReplace         == <<"'int' object has no attribute 'replace'">>
BadAmount         == <<"could not convert string to float">>

\* DocumentPayload(...) as built at lines 230-244
BuildPayload(row, doc_type, key) ==
    [company_name        |-> PyOr(row.company_name, row.exhibitor_invite),
     company_address     |-> PyOr(row.official_address, Str(<<>>)),
     meeting_name        |-> row.matched_event[1].meeting_name,
     meeting_date_long   |-> row.matched_event[1].meeting_date_long,
     venue               |-> row.matched_event[1].venue,
     city_state          |-> row.matched_event[1].city_state,
     final_total         |-> get_total_amount(row).cents,
     amount_currency     |-> row.total,
     document_type       |-> doc_type,
     signature_person    |-> IF doc_type = "LOA" THEN <<SignatoryInfo(key)>> ELSE <<>>,
     attendance_expected |-> row.expected_attendance,
     event_year          |-> row.matched_event[1].event_year,
     row_number          |-> row.row_number]

SlugLenCompany == 50
SlugLenEvent   == 30

\* row.company_name.replace(' ', '_').replace('/', '_')[:50]
CompanySlug(name) == Prefix(Replace(Replace(name, " ", "_"), "/", "_"), SlugLenCompany)

\* row.matched_event['meeting_name'][:30].replace(' ', '_').replace('/', '_')
EventSlug(name) == Replace(Replace(Prefix(name, SlugLenEvent), " ", "_"), "/", "_")

DocTypeText(doc_type) == IF doc_type = "LOA" THEN <<"L","O","A">> ELSE <<"L","O","R">>

\* f"{document_type}_{company_slug}_{event_slug}"
BaseName(row, doc_type) ==
    DocTypeText(doc_type) \o <<"_">> \o CompanySlug(row.company_name.s)
        \o <<"_">> \o EventSlug(row.matched_event[1].meeting_name)

DocxName(base) == base \o <<".","d","o","c","x">>
PdfName(base)  == base \o <<".","p","d","f">>

\* a variant that writes the .docx entry only
ArchiveEntriesDocxOnly(row, doc_type) ==
    <<[name |-> DocxName(BaseName(row, doc_type)), row_number |-> row.row_number]>>

\* zipf.writestr(f"{base_name}.docx", ...); zipf.writestr(f"{base_name}.pdf", ...)
ArchiveEntries(row, doc_type) ==
    LET base == BaseName(row, doc_type)
    IN  <<[name |-> DocxName(base), row_number |-> row.row_number],
          [name |-> PdfName(base), row_number |-> row.row_number]>>

\* a variant without the has_errors check
SkipsRowNever(row) == FALSE

\* `if row.has_errors(): error_count += 1; continue`
SkipsRow(row) == has_errors(row)

\* a variant of the except clause that records a fixed text for every cause
FailedUnnamed(row, message, entries, built, calls) ==
    [row      |-> add_error(row, Err("Generation failed: ", <<"error">>)),
     success  |-> 0, error |-> 1, outcome |-> "failed",
     entries  |-> entries, payloads |-> built, renders |-> calls]

\* a variant of the except clause that calls the generator once more
FailedRetried(row, message, entries, built, calls) ==
    [row      |-> add_error(row, Err("Generation failed: ", message)),
     success  |-> 0, error |-> 1, outcome |-> "failed",
     entries  |-> entries, payloads |-> built, renders |-> calls \o calls]

\* a variant of the except clause that forgets error_count += 1
FailedUncounted(row, message, entries, built, calls) ==
    [row      |-> add_error(row, Err("Generation failed: ", message)),
     success  |-> 0, error |-> 0, outcome |-> "failed",
     entries  |-> entries, payloads |-> built, renders |-> calls]

\* the except clause: the row gets the error and counts as a failure
Failed(row, message, entries, built, calls) ==
    [row      |-> add_error(row, Err("Generation failed: ", message)),
     success  |-> 0, error |-> 1, outcome |-> "failed",
     entries  |-> entries, payloads |-> built, renders |-> calls]

\* one iteration of `for row in rows`, the collaborators behaving as `env`
LoopBody(row, doc_type, key, env) ==
    IF SkipsRow(row)
    THEN [row |-> row, success |-> 0, error |-> 1, outcome |-> "skipped_errors",
          entries |-> <<>>, payloads |-> <<>>, renders |-> <<>>]
    ELSE IF row.matched_event = <<>>
    THEN [row |-> row, success |-> 0, error |-> 1, outcome |-> "skipped_unmatched",
          entries |-> <<>>, payloads |-> <<>>, renders |-> <<>>]
    ELSE IF get_total_amount(row).raises
    THEN Failed(row, BadAmount, <<>>, <<>>, <<>>)
    ELSE IF env = "payload_raises"
    THEN Failed(row, CollaboratorError, <<>>, <<>>, <<>>)
    ELSE
    LET payload == BuildPayload(row, doc_type, key)
        call    == [row_number    |-> row.row_number,
                    generator     |-> IF doc_type = "LOA" THEN "generate_loa_documents"
                                      ELSE "generate_lor_documents",
                    signatory_key |-> IF doc_type = "LOA" THEN key ELSE "",
                    payload       |-> payload]
    IN  IF env = "render_raises"
        THEN Failed(row, CollaboratorError, <<>>, <<payload>>, <<call>>)
        ELSE IF row.company_name.t # "str"
        THEN Failed(row, NoReplace, <<>>, <<payload>>, <<call>>)
        ELSE
        LET written == ArchiveEntries(row, doc_type)
        IN  IF env = "pdf_unusable"
            THEN Failed(row, CollaboratorError, <<written[1]>>, <<payload>>, <<call>>)
            ELSE [row |-> row, success |-> 1, error |-> 0, outcome |-> "success",
                  entries |-> written, payloads |-> <<payload>>, renders |-> <<call>>]

(***************************************************************************)
(* generate_validation_report                                              *)
(***************************************************************************)
\* valid_rows[:10]
ReportLimit == 10

generate_validation_report(rws) ==
    LET valid_rows == SelectSeq(rws, LAMBDA r : ~has_errors(r))
        error_rows == SelectSeq(rws, has_errors)
        shown      == Prefix(valid_rows, ReportLimit)
    IN  [total_rows  |-> Len(rws),
         valid_count |-> Len(valid_rows),
         error_count |-> Len(error_rows),
         lines |->
            [k \in 1..Len(error_rows) |->
                [section    |-> "Errors",
                 row_number |-> error_rows[k].row_number,
                 company    |-> PyOr(error_rows[k].company_name, error_rows[k].exhibitor_invite),
                 errors     |-> error_rows[k].errors,
                 event      |-> <<>>]]
            \o
            [k \in 1..Len(shown) |->
                [section    |-> "Valid Rows",
                 row_number |-> shown[k].row_number,
                 company    |-> shown[k].company_name,
                 errors     |-> <<>>,
                 event      |-> IF shown[k].matched_event # <<>>
                                THEN shown[k].matched_event[1].meeting_name
                                ELSE <<"No match">>]],
         more  |-> IF Len(valid_rows) > ReportLimit THEN Len(valid_rows) - ReportLimit ELSE 0]

(***************************************************************************)
(* Inputs                                                                  *)
(***************************************************************************)
SanDiego     == <<"L","i","v","e","r"," ","M","e","e","t","i","n","g"," ","D","i","r","e","c","t"," ","f","r","o","m"," ","S","a","n"," ","D","i","e","g","o">>
SanFrancisco == <<"L","i","v","e","r"," ","M","e","e","t","i","n","g"," ","D","i","r","e","c","t"," ","f","r","o","m"," ","S","a","n"," ","F","r","a","n","c","i","s","c","o">>
LooseText    == <<"l","i","v","e","r"," ","m","e","e","t","i","n","g"," ","s","a","n"," ","d","i","e","g","o">>
UnknownText  == <<"Z","z">>
AbCo         == <<"A","b"," ","C","o">>
AbSlashCo    == <<"A","b","/","C","o">>
MainSt       == <<"1"," ","M","a","i","n">>
FiveThousand == <<"$","5",",","0","0","0",".","0","0">>
ZeroDecimal  == <<"0",".","0","0">>
TBD          == <<"T","B","D">>
Blank        == <<" "," ">>

\* the registry snapshot returned by get_all_events()
Registry == <<
    [meeting_name |-> SanDiego, meeting_date_long |-> "November 8, 2025",
     venue |-> "Marriott", city_state |-> "San Diego, CA", year |-> 2025],
    [meeting_name |-> SanFrancisco, meeting_date_long |-> "March 7, 2026",
     venue |-> "Hilton", city_state |-> "San Francisco, CA", year |-> 2026] >>

\* headers and cells of the batch tables
BatchColumns == << <<"C","o","m","p","a","n","y">>, <<" ","e","v","e","n","t">>,
                   <<"T","O","T","A","L">>, <<"a","d","d","r","e","s","s">> >>

GoodRow == <<Str(AbCo), Str(SanDiego), Str(FiveThousand), Str(MainSt)>>

CompanyCells == {NaN, Str(AbCo), Str(AbSlashCo)}
EventCells   == {NaN, Str(SanDiego), Str(SanFrancisco)}
TotalCells   == {Str(ZeroDecimal), Str(FiveThousand)}
AddressCells == {Str(MainSt)}

\* batch rows: the good row with at most one cell changed
BatchRows ==
    {r \in CompanyCells \X EventCells \X TotalCells \X AddressCells :
        Cardinality({c \in 1..4 : r[c] # GoodRow[c]}) <= 1}

RECURSIVE Tables(_, _)
Tables(rowset, n) ==
    IF n = 0 THEN {<<>>}
    ELSE LET shorter == Tables(rowset, n - 1)
         IN  shorter \cup {Append(t, r) : t \in {s \in shorter : Len(s) = n - 1}, r \in rowset}

BatchFiles == {[columns |-> BatchColumns, data |-> d] : d \in Tables(BatchRows, MaxRows)}

\* single rows with every kind of cell, an optional column included
RowColumns == BatchColumns \o << <<"A","t","t","e","n","d","a","n","c","e">> >>

RowFiles ==
    {[columns |-> RowColumns, data |-> <<r>>] :
        r \in ({NaN, Str(Blank), Str(AbCo), Num(7), Num(0)}
               \X {NaN, Str(Blank), Str(SanDiego), Str(LooseText), Str(UnknownText)}
               \X (TotalCells \cup {NaN, Str(TBD), Str(Blank), Str(<<"0">>), Num(0), Num(7500)})
               \X {NaN, Str(Blank), Str(MainSt)}
               \X {NaN, Num(250)})}

\* header rows of every shape over a vocabulary, with plain data under them
HeaderVocabulary == {
    <<"C","o","m","p","a","n","y">>, <<" ","e","v","e","n","t">>, <<"T","O","T","A","L">>, <<"t","o","t","a","l"," ">>,
    <<"a","m","o","u","n","t">>, <<"l","o","c","a","t","i","o","n">>,
    <<"n","o","t","e","s">> }

RECURSIVE HeaderRows(_)
HeaderRows(n) ==
    IF n = 0 THEN {<<>>}
    ELSE LET shorter == HeaderRows(n - 1)
         IN  shorter \cup {Append(h, c) : h \in {s \in shorter : Len(s) = n - 1},
                                          c \in HeaderVocabulary}

NoRepeat(h) == \A i, j \in 1..Len(h) : i # j => h[i] # h[j]

CellUnder(header) ==
    LET name == Strip(Lower(header))
    IN  IF Contains(Variations("exhibitor_invite"), name) THEN Str(AbCo)
        ELSE IF Contains(Variations("event_name"), name) THEN Str(SanDiego)
        ELSE IF Contains(Variations("total"), name) THEN Str(FiveThousand)
        ELSE Str(MainSt)

SchemaFiles ==
    {[columns |-> h, data |-> [k \in 1..n |-> [c \in 1..Len(h) |-> CellUnder(h[c])]]] :
        h \in {x \in HeaderRows(MaxCols) : NoRepeat(x)}, n \in 0..MaxSchemaRows}

\* registries with near-duplicate names: every order of every non-empty choice
\* among three events, two of which differ in letter case only
GutSummit      == <<"G","u","t"," ","S","u","m","m","i","t">>
GutSummitLower == <<"g","u","t"," ","s","u","m","m","i","t">>

Candidates == {
    [meeting_name |-> SanDiego, meeting_date_long |-> "November 8, 2025",
     venue |-> "Marriott", city_state |-> "San Diego, CA", year |-> 2025],
    [meeting_name |-> GutSummit, meeting_date_long |-> "May 2, 2026",
     venue |-> "Omni", city_state |-> "Austin, TX", year |-> 2026],
    [meeting_name |-> GutSummitLower, meeting_date_long |-> "June 6, 2026",
     venue |-> "Westin", city_state |-> "Boston, MA", year |-> 2026] }

RECURSIVE Orderings(_)
Orderings(entries) ==
    IF entries = {} THEN {<<>>}
    ELSE UNION {{<<e>> \o rest : rest \in Orderings(entries \ {e})} : e \in entries}

Registries == UNION {Orderings(chosen) : chosen \in (SUBSET Candidates) \ {{}}}

\* one good row per file, asking for one of the candidates by its exact name
MatchFiles ==
    {[columns |-> BatchColumns,
      data    |-> << <<Str(AbCo), Str(e.meeting_name), Str(FiveThousand), Str(MainSt)>> >>] :
        e \in Candidates}

\* one good row per file, its total written in one of the usual ways
TenThousandFiveHundred == <<"$","1","0",",","5","0","0",".","5","0">>
SevenThousandFiveHundred == <<"7","5","0","0">>
TwelveAndAHalf == <<"1","2",".","5">>

AmountFiles ==
    {[columns |-> BatchColumns,
      data    |-> << <<Str(AbCo), Str(SanDiego), Str(amount), Str(MainSt)>> >>] :
        amount \in {TenThousandFiveHundred, SevenThousandFiveHundred, TwelveAndAHalf}}

\* good rows under headers of which two carry the same name once normalized
TwoTotalsColumns == << <<"C","o","m","p","a","n","y">>, <<" ","e","v","e","n","t">>,
                       <<"T","O","T","A","L">>, <<"t","o","t","a","l"," ">> >>

TwoTotalsFiles ==
    {[columns |-> TwoTotalsColumns,
      data    |-> [k \in 1..n |-> <<Str(AbCo), Str(SanDiego), Str(FiveThousand), Str(FiveThousand)>>]] :
        n \in 1..2}

DocumentTypes == {"LOR", "LOA"}
SignatoryKeys == {"michael", "intern"}

(***************************************************************************)
(* The caller: parse_excel_file, match_events, generate_batch_documents,   *)
(* generate_validation_report                                              *)
(***************************************************************************)
InitWith(files, registries, faulty) ==
    /\ pc = "upload"
    /\ file_obj \in files
    /\ faulty_buffers = faulty
    /\ all_events \in registries
    /\ rows = <<>>
    /\ errors = <<>>
    /\ parse_row_calls = <<>>
    /\ did_match = FALSE
    /\ document_type = "LOR"
    /\ signatory_key = "sarah"
    /\ idx = 0
    /\ success_count = 0
    /\ error_count = 0
    /\ zipf = <<>>
    /\ payloads = <<>>
    /\ renders = <<>>
    /\ visited = <<>>
    /\ report = <<>>
    /\ events_table = <<>>
    /\ sqlite_sequence = 0
    /\ db_call = [op |-> "none"]
    /\ templates = {}
    /\ template_call = [op |-> "none"]
    /\ other_run = <<>>

Init ==
    \/ InitWith(BatchFiles \cup RowFiles \cup SchemaFiles \cup AmountFiles
                    \cup TwoTotalsFiles, {Registry}, FALSE)
    \/ InitWith(MatchFiles, Registries, FALSE)

InitFaulty == InitWith(BatchFiles, {Registry}, TRUE)

\* rows, errors = ExcelProcessor.parse_excel_file(uploaded_file)
Parse ==
    /\ pc = "upload"
    /\ LET result == parse_excel_file(file_obj)
       IN  /\ rows' = result.rows
           /\ errors' = result.errors
           /\ parse_row_calls' = result.calls
           /\ pc' = IF result.rows = <<>> /\ result.errors # <<>> THEN "rejected" ELSE "parsed"
    /\ UNCHANGED <<file_obj, all_events, did_match, document_type, signatory_key, idx,
                   success_count, error_count, zipf, payloads, renders, visited, report,
                   faulty_buffers, events_table, sqlite_sequence, db_call, templates,
                   template_call, other_run>>

\* rows = ExcelProcessor.match_events(rows)
Match ==
    /\ pc = "parsed"
    /\ ~did_match
    /\ rows' = match_events(rows, all_events)
    /\ did_match' = TRUE
    /\ UNCHANGED <<pc, file_obj, all_events, errors, parse_row_calls, document_type,
                   signatory_key, idx, success_count, error_count, zipf, payloads,
                   renders, visited, report,
                   faulty_buffers, events_table, sqlite_sequence, db_call, templates,
                   template_call, other_run>>

\* generate_batch_documents is entered: the archive is opened, the counters are zero
GenerateEnter ==
    /\ pc = "parsed"
    /\ \E doc_type \in DocumentTypes, key \in SignatoryKeys :
          /\ document_type' = doc_type
          /\ signatory_key' = key
    /\ idx' = 1
    /\ success_count' = 0
    /\ error_count' = 0
    /\ zipf' = <<>>
    /\ pc' = "generating"
    /\ UNCHANGED <<file_obj, all_events, rows, errors, parse_row_calls, did_match,
                   payloads, renders, visited, report,
                   faulty_buffers, events_table, sqlite_sequence, db_call, templates,
                   template_call, other_run>>

\* the behaviours the collaborators can show for a row: none is consulted for
\* a row the loop skips
Consulted(row) == ~has_errors(row) /\ row.matched_event # <<>> /\ ~get_total_amount(row).raises

\* a variant that also passes over the row after a failed one
NextRowSkipsAfterFailure(i, result) == IF result.outcome = "failed" THEN i + 2 ELSE i + 1

\* a variant that leaves the loop at the first failed row
NextRowBreak(i, result) == IF result.outcome = "failed" THEN Len(rows) + 1 ELSE i + 1

\* the for statement moves to the next row whatever the body did
NextRow(i, result) == i + 1

\* one iteration of the for loop of generate_batch_documents
GenerateRow ==
    /\ pc = "generating"
    /\ idx <= Len(rows)
    /\ \E env \in (IF Consulted(rows[idx]) THEN Behaviours(faulty_buffers) ELSE {"ok"}) :
          LET result == LoopBody(rows[idx], document_type, signatory_key, env)
          IN  /\ rows' = [rows EXCEPT ![idx] = result.row]
              /\ success_count' = success_count + result.success
              /\ error_count' = error_count + result.error
              /\ zipf' = zipf \o result.entries
              /\ payloads' = payloads \o result.payloads
              /\ renders' = renders \o result.renders
              /\ visited' = Append(visited, [row_number |-> rows[idx].row_number,
                                             outcome    |-> result.outcome,
                                             env        |-> env])
              /\ idx' = NextRow(idx, result)
    /\ UNCHANGED <<pc, file_obj, all_events, errors, parse_row_calls, did_match,
                   document_type, signatory_key, report,
                   faulty_buffers, events_table, sqlite_sequence, db_call, templates,
                   template_call, other_run>>

\* the loop is over: zip_buffer.seek(0); return zip_buffer, success_count, error_count
GenerateReturn ==
    /\ pc = "generating"
    /\ idx > Len(rows)
    /\ pc' = "done"
    /\ UNCHANGED <<file_obj, all_events, rows, errors, parse_row_calls, did_match,
                   document_type, signatory_key, idx, success_count, error_count,
                   zipf, payloads, renders, visited, report,
                   faulty_buffers, events_table, sqlite_sequence, db_call, templates,
                   template_call, other_run>>

\* report = generate_validation_report(rows)
Report ==
    /\ pc = "done"
    /\ report' = <<generate_validation_report(rows)>>
    /\ pc' = "reported"
    /\ UNCHANGED <<file_obj, all_events, rows, errors, parse_row_calls, did_match,
                   document_type, signatory_key, idx, success_count, error_count,
                   zipf, payloads, renders, visited, faulty_buffers, events_table, sqlite_sequence, db_call, templates,
                   template_call, other_run>>

Next == Parse \/ Match \/ GenerateEnter \/ GenerateRow \/ GenerateReturn \/ Report

Spec == Init /\ [][Next]_vars

\* GenerateRow can run exactly when the loop has a row left: it has no other
\* guard and always extends visited
LoopCanRun == pc = "generating" /\ idx <= Len(rows)

\* weak fairness of GenerateRow, with its enabling condition written out
LoopRuns == []<>(~LoopCanRun) \/ []<><<GenerateRow>>_vars

\* the batch tables alone, with a started generate_batch_documents carried
\* on: sequential code takes its next step, the loop body and the return
SpecBatch ==
    /\ InitWith(BatchFiles, {Registry}, FALSE)
    /\ [][Next]_vars
    /\ LoopRuns
    /\ WF_vars(GenerateReturn)

\* a second upload on the same registry snapshot, its three calls taken one
\* at a time in between those of the first: parse_excel_file, match_events,
\* generate_batch_documents; this variant sorts the registry it was handed
OtherRunSortsRegistry ==
    /\ pc \in {"upload", "parsed", "generating", "done"}
    /\ \/ /\ other_run = <<>>
          /\ \E file \in MatchFiles :
                other_run' = <<[file |-> file, stage |-> "parsed",
                                rows |-> parse_excel_file(file).rows]>>
          /\ UNCHANGED all_events
       \/ /\ other_run # <<>> /\ other_run[1].stage = "parsed"
          /\ other_run' = <<[other_run[1] EXCEPT
                                !.stage = "matched",
                                !.rows = match_events(other_run[1].rows, all_events)]>>
          /\ all_events' = [k \in 1..Len(all_events) |-> all_events[Len(all_events) + 1 - k]]
       \/ /\ other_run # <<>> /\ other_run[1].stage = "matched"
          /\ \E doc_type \in DocumentTypes :
                other_run' = <<[other_run[1] EXCEPT
                                  !.stage = "done",
                                  !.rows = [k \in 1..Len(other_run[1].rows) |->
                                              LoopBody(other_run[1].rows[k], doc_type,
                                                       "sarah", "ok").row]]>>
          /\ UNCHANGED all_events
    /\ UNCHANGED <<pc, file_obj, rows, errors, parse_row_calls, did_match,
                   document_type, signatory_key, idx, success_count, error_count,
                   zipf, payloads, renders, visited, report, faulty_buffers,
                   events_table, sqlite_sequence, db_call, templates, template_call>>

\* a second upload on the same registry snapshot, its three calls taken one
\* at a time in between those of the first: parse_excel_file, match_events,
\* generate_batch_documents
OtherRun ==
    /\ pc \in {"upload", "parsed", "generating", "done"}
    /\ \/ /\ other_run = <<>>
          /\ \E file \in MatchFiles :
                other_run' = <<[file |-> file, stage |-> "parsed",
                                rows |-> parse_excel_file(file).rows]>>
       \/ /\ other_run # <<>> /\ other_run[1].stage = "parsed"
          /\ other_run' = <<[other_run[1] EXCEPT
                                !.stage = "matched",
                                !.rows = match_events(other_run[1].rows, all_events)]>>
       \/ /\ other_run # <<>> /\ other_run[1].stage = "matched"
          /\ \E doc_type \in DocumentTypes :
                other_run' = <<[other_run[1] EXCEPT
                                  !.stage = "done",
                                  !.rows = [k \in 1..Len(other_run[1].rows) |->
                                              LoopBody(other_run[1].rows[k], doc_type,
                                                       "sarah", "ok").row]]>>
    /\ UNCHANGED <<pc, file_obj, all_events, rows, errors, parse_row_calls, did_match,
                   document_type, signatory_key, idx, success_count, error_count,
                   zipf, payloads, renders, visited, report, faulty_buffers,
                   events_table, sqlite_sequence, db_call, templates, template_call>>

NextShared == Next \/ OtherRun

\* two uploads that share one registry snapshot
SpecShared == InitWith(MatchFiles, Registries, FALSE) /\ [][NextShared]_vars

\* the same program with generators that may break their interface
SpecFaulty == InitFaulty /\ [][Next]_vars

(***************************************************************************)
(* Vocabulary of the properties                                            *)
(***************************************************************************)
Finished == pc \in {"done", "reported"}

RequiredFields == {"exhibitor_invite", "event_name", "total"}

\* no header of the uploaded table, lower-cased and trimmed, is a variation of the field
HeadersLack(field) ==
    \A i \in 1..Len(file_obj.columns) :
        ~Contains(Variations(field), Strip(Lower(file_obj.columns[i])))

EntriesOf(n)  == {i \in 1..Len(zipf) : zipf[i].row_number = n}
PayloadsOf(n) == {i \in 1..Len(payloads) : payloads[i].row_number = n}
RendersOf(n)  == {i \in 1..Len(renders) : renders[i].row_number = n}

IsGenerationError(e) == e.prefix = "Generation failed: "

\* generate_batch_documents appends generation errors only: any other error
\* was on the row when the loop reached it
ArrivedWithErrors(row) == \E i \in 1..Len(row.errors) : ~IsGenerationError(row.errors[i])

Failures == {k \in 1..Len(visited) : visited[k].outcome # "success"}

\* the row as the loop found it
RowAsReached(k) ==
    IF visited[k].outcome = "failed"
    THEN [rows[k] EXCEPT !.errors = SubSeq(@, 1, Len(@) - 1)]
    ELSE rows[k]

(***************************************************************************)
(* C1: a table whose normalized headers lack a variation of a required     *)
(* field yields no rows and one structural error that names exactly the    *)
(* missing fields; _parse_row is never invoked and nothing proceeds.       *)
(***************************************************************************)
C1_StructuralFailure ==
    (pc # "upload" /\ \E f \in RequiredFields : HeadersLack(f)) =>
        /\ rows = <<>>
        /\ parse_row_calls = <<>>
        /\ Len(errors) = 1
        /\ errors[1].prefix = "Missing required columns: "
        /\ \A f \in RequiredFields : HeadersLack(f) <=> Contains(errors[1].arg, f)
        /\ pc = "rejected"

C1_Witness ==
    /\ pc = "rejected"
    /\ Len(file_obj.data) > 0
    /\ Len(file_obj.columns) = 2
    /\ Cardinality({f \in RequiredFields : HeadersLack(f)}) = 2

(***************************************************************************)
(* C2: a row that reaches the loop of generate_batch_documents with errors *)
(* gets no payload, no rendering call and no archive entry, and is counted *)
(* once, as a failure.                                                     *)
(***************************************************************************)
C2_ErrorRowsNeverGenerate ==
    /\ \A k \in 1..Len(visited) :
          ArrivedWithErrors(rows[k]) =>
              /\ visited[k].row_number = rows[k].row_number
              /\ PayloadsOf(rows[k].row_number) = {}
              /\ RendersOf(rows[k].row_number) = {}
              /\ EntriesOf(rows[k].row_number) = {}
              /\ visited[k].outcome = "skipped_errors"
    /\ error_count = Cardinality(Failures)

C2_Witness ==
    /\ Finished
    /\ success_count >= 1
    /\ \E k \in 1..Len(visited) :
          /\ ArrivedWithErrors(rows[k])
          /\ rows[k].matched_event # <<>>
          /\ ~get_total_amount(rows[k]).raises

(***************************************************************************)
(* C3: a row whose payload construction or rendering raises is counted as  *)
(* a failure and gets the generation error; what the loop does with a row  *)
(* depends on that row alone, so later rows fare as they would have; the   *)
(* loop never stops before the last row.                                   *)
(***************************************************************************)
C3_FailureIsolated ==
    /\ \A k \in 1..Len(visited) :
          /\ visited[k].env \in {"payload_raises", "render_raises"} =>
                /\ visited[k].outcome = "failed"
                /\ rows[k].errors # <<>>
                /\ IsGenerationError(rows[k].errors[Len(rows[k].errors)])
                /\ EntriesOf(rows[k].row_number) = {}
          /\ visited[k].outcome =
                LoopBody(RowAsReached(k), document_type, signatory_key, visited[k].env).outcome
    /\ error_count = Cardinality(Failures)
    /\ pc = "generating" => Len(visited) = idx - 1 /\ idx <= Len(rows) + 1
    /\ Finished => Len(visited) = Len(rows)

C3_Witness ==
    /\ Finished
    /\ Len(visited) = 2
    /\ visited[1].env = "render_raises"
    /\ visited[2].outcome = "success"

C5_CountersPartitionRows ==
    /\ pc = "generating" => success_count + error_count = idx - 1
    /\ pc \in {"generating", "done", "reported"} =>
          /\ success_count + error_count = Len(visited)
          /\ success_count = Cardinality({k \in 1..Len(visited) : visited[k].outcome = "success"})
    /\ Finished => success_count + error_count = Len(rows)
    /\ pc = "reported" => report[1].total_rows = success_count + error_count

C5_Witness ==
    /\ pc = "reported"
    /\ Len(rows) = 2
    /\ success_count = 1
    /\ \E k \in 1..2 : visited[k].outcome = "failed"

(***************************************************************************)
(* Cells of the uploaded table, as the user sees them                      *)
(***************************************************************************)
\* the cell of the row's table line under the column the field resolves to
DataCell(row, field) ==
    LET columns == NormalizeColumns(file_obj.columns)
    IN  file_obj.data[row.row_number - 1][IndexOf(columns, BuildColumnMap(columns)[field])]

BlankCell(c) == c.t = "nan" \/ (c.t = "str" /\ \A i \in 1..Len(c.s) : c.s[i] \in Whitespace)

\* zero as a number or as text: 0, '0', '0.00', '$0'
ZeroCell(c) ==
    \/ c = Num(0)
    \/ /\ c.t = "str"
       /\ \E i \in 1..Len(c.s) : c.s[i] \in Digits
       /\ \A i \in 1..Len(c.s) : c.s[i] \in {"0", ".", "$", ","} \cup Whitespace

HasError(row, text) == \E i \in 1..Len(row.errors) : row.errors[i].prefix = text

ErrorText(field) ==
    CASE field = "exhibitor_invite" -> "Missing company name"
      [] field = "event_name"       -> "Missing event name"
      [] field = "total"            -> "Missing or invalid total"

(***************************************************************************)
(* C6: the entry names of one archive are pairwise distinct.               *)
(***************************************************************************)
C6_DistinctEntryNames ==
    \A i, j \in 1..Len(zipf) : i # j => zipf[i].name # zipf[j].name

(***************************************************************************)
(* C7: after parse -> match -> generate, a row whose company cell is       *)
(* blank, whose event cell is blank, or whose total cell is blank or zero  *)
(* (0, '0', '0.00', '$0') carries the corresponding error and has no       *)
(* archive entry.                                                          *)
(***************************************************************************)
C7_BlankOrZeroRowsFail ==
    (Finished /\ did_match) =>
        \A k \in 1..Len(rows) :
            \A f \in RequiredFields :
                (BlankCell(DataCell(rows[k], f)) \/ (f = "total" /\ ZeroCell(DataCell(rows[k], f))))
                    => /\ HasError(rows[k], ErrorText(f))
                       /\ EntriesOf(rows[k].row_number) = {}

(***************************************************************************)
(* C8 as stated: the number of validation errors of a parsed row is the    *)
(* number of its blank required cells.                                     *)
(***************************************************************************)
C8_ErrorsCountBlankCells ==
    (pc = "parsed" /\ ~did_match) =>
        \A k \in 1..Len(rows) :
            Len(rows[k].errors) =
                Cardinality({f \in RequiredFields : BlankCell(DataCell(rows[k], f))})

\* what _parse_row treats as a missing value: a blank cell, the number 0,
\* and for the total also the text '0'
Deficient(field, c) ==
    \/ BlankCell(c)
    \/ c = Num(0)
    \/ field = "total" /\ c.t = "str" /\ Strip(c.s) = <<"0">>

\* an optional field, extracted: None for an unmapped column or an empty
\* cell, the trimmed text or the number otherwise
Extracted(row, field) ==
    IF HeadersLack(field) THEN None
    ELSE LET c == DataCell(row, field)
         IN  IF c.t = "nan" THEN None
             ELSE IF c.t = "str" THEN Str(Strip(c.s)) ELSE c

(***************************************************************************)
(* C8, amended: _parse_row never stops at the first problem. The errors of *)
(* the returned row are, in the order company, event, total, one for each  *)
(* required field whose cell is blank or zero (the number 0, or the text   *)
(* '0' as total), and the optional fields are extracted all the same.      *)
(***************************************************************************)
C8_AllValidationErrorsCollected ==
    (pc = "parsed" /\ ~did_match) =>
        \A k \in 1..Len(rows) :
            LET bad == {f \in RequiredFields : Deficient(f, DataCell(rows[k], f))}
            IN  /\ rows[k].errors =
                       [i \in 1..Len(SelectSeq(REQUIRED, LAMBDA f : f \in bad)) |->
                           Err(ErrorText(SelectSeq(REQUIRED, LAMBDA f : f \in bad)[i]), <<>>)]
                /\ Len(rows[k].errors) = Cardinality(bad)
                /\ rows[k].official_address = Extracted(rows[k], "official_address")
                /\ rows[k].expected_attendance = Extracted(rows[k], "expected_attendance")
                /\ rows[k].total.s =
                       (LET c == DataCell(rows[k], "total")
                        IN  IF c.t = "nan" THEN <<"0">>
                            ELSE IF c.t = "str" THEN Strip(c.s) ELSE PyStr(c))

C8_Witness ==
    /\ pc = "parsed"
    /\ ~did_match
    /\ Len(rows) = 1
    /\ Len(rows[1].errors) = 3
    /\ rows[1].official_address = Str(MainSt)
    /\ rows[1].expected_attendance = Num(250)

(***************************************************************************)
(* Order of the rows through the pipeline                                  *)
(***************************************************************************)
\* the row numbers of a sequence of records grow strictly
Increasing(seq) == \A i, j \in 1..Len(seq) : i < j => seq[i].row_number < seq[j].row_number

\* the row numbers of a sequence of records never fall
NonDecreasing(seq) == \A i, j \in 1..Len(seq) : i < j => seq[i].row_number <= seq[j].row_number

\* parse, match and generate keep the table order: the rows are in table
\* order at every point, the loop visits them in that order and the archive
\* entries follow it
PipelineInTableOrder ==
    /\ Increasing(rows)
    /\ \A k \in 1..Len(rows) : rows[k].row_number \in 2..(Len(file_obj.data) + 1)
    /\ \A i, j \in 1..Len(parse_row_calls) : i < j => parse_row_calls[i] < parse_row_calls[j]
    /\ \A k \in 1..Len(visited) : visited[k].row_number = rows[k].row_number
    /\ NonDecreasing(zipf)

ReportLines(section) == SelectSeq(report[1].lines, LAMBDA l : l.section = section)

Matched == pc = "parsed" /\ did_match

LastError(row) == row.errors[Len(row.errors)]

\* the matcher's answer for the row's event text
Answer(row) == find_best_match(row.event_name.s, all_events)

\* every row leaving match_events has its event set or an error
MatchedOrInError(row) == row.matched_event # <<>> \/ row.errors # <<>>

\* matched_event is set only on the matcher's answer, and holds its fields
SetOnlyFromAnswer(row) ==
    row.matched_event # <<>> =>
        /\ Truthy(row.event_name)
        /\ Answer(row) # <<>>
        /\ row.matched_event[1] =
              [meeting_name      |-> Answer(row)[1].meeting_name,
               meeting_date_long |-> Answer(row)[1].meeting_date_long,
               venue             |-> Answer(row)[1].venue,
               city_state        |-> Answer(row)[1].city_state,
               event_year        |-> Answer(row)[1].year]

(***************************************************************************)
(* C10 as stated: after match_events, a row whose event text is empty or   *)
(* unmatched has the error "Could not match event: <text>" appended and no *)
(* matched_event; matched_event is set only from the matcher's answer;     *)
(* every row has matched_event set or an error.                            *)
(***************************************************************************)
C10_UnmatchedGetsCouldNotMatch ==
    Matched =>
        \A k \in 1..Len(rows) :
            /\ (~Truthy(rows[k].event_name) \/ Answer(rows[k]) = <<>>) =>
                  /\ rows[k].matched_event = <<>>
                  /\ rows[k].errors # <<>>
                  /\ LastError(rows[k]) = Err("Could not match event: ", rows[k].event_name.s)
            /\ SetOnlyFromAnswer(rows[k])
            /\ MatchedOrInError(rows[k])

(***************************************************************************)
(* C10, amended: after match_events, a row with an empty event text has    *)
(* the error "No event name provided" appended, a row with a text the      *)
(* matcher accepts no entry for has "Could not match event: <text>"        *)
(* appended, and both keep matched_event unset; a row the matcher answers  *)
(* gets no error from match_events and exactly the answer's name, date,    *)
(* venue, city/state and year; every row has matched_event set or an error.*)
(***************************************************************************)
C10_EmptyAndUnmatchedGetTheirOwnError ==
    Matched =>
        \A k \in 1..Len(rows) :
            /\ ~Truthy(rows[k].event_name) =>
                  /\ rows[k].matched_event = <<>>
                  /\ rows[k].errors # <<>>
                  /\ LastError(rows[k]) = Err("No event name provided", <<>>)
                  /\ ~HasError(rows[k], "Could not match event: ")
            /\ (Truthy(rows[k].event_name) /\ Answer(rows[k]) = <<>>) =>
                  /\ rows[k].matched_event = <<>>
                  /\ rows[k].errors # <<>>
                  /\ LastError(rows[k]) = Err("Could not match event: ", rows[k].event_name.s)
                  /\ ~HasError(rows[k], "No event name provided")
            /\ (Truthy(rows[k].event_name) /\ Answer(rows[k]) # <<>>) =>
                  /\ rows[k].matched_event # <<>>
                  /\ ~HasError(rows[k], "Could not match event: ")
                  /\ ~HasError(rows[k], "No event name provided")
            /\ SetOnlyFromAnswer(rows[k])
            /\ MatchedOrInError(rows[k])

C10_Witness ==
    /\ Matched
    /\ Len(rows) = 2
    /\ ~Truthy(rows[1].event_name)
    /\ LastError(rows[1]) = Err("No event name provided", <<>>)
    /\ rows[2].matched_event # <<>>
    /\ rows[2].matched_event[1].meeting_name = SanFrancisco

(***************************************************************************)
(* C11: after match_events, a row whose event text is identical to the     *)
(* name of a registry entry has matched_event set to that entry's name,    *)
(* date, venue and city/state, whatever near-duplicate entries the         *)
(* registry holds and wherever they sit.                                   *)
(***************************************************************************)
C11_ExactNameMatchesThatEntry ==
    Matched =>
        \A k \in 1..Len(rows) :
            \A i \in 1..Len(all_events) :
                (Truthy(rows[k].event_name) /\ rows[k].event_name.s = all_events[i].meeting_name) =>
                    /\ rows[k].matched_event # <<>>
                    /\ rows[k].matched_event[1].meeting_name = all_events[i].meeting_name
                    /\ rows[k].matched_event[1].meeting_date_long = all_events[i].meeting_date_long
                    /\ rows[k].matched_event[1].venue = all_events[i].venue
                    /\ rows[k].matched_event[1].city_state = all_events[i].city_state

(***************************************************************************)
(* Amounts as text                                                         *)
(***************************************************************************)
\* an amount in cents written with two decimals: 500000 is 5000.00
TwoDecimals(cents) ==
    NatToStr(cents \div 100) \o <<".">> \o <<Digit((cents % 100) \div 10), Digit(cents % 10)>>

\* the digits and the decimal point of a text, completed to two decimals
WrittenNumber(s) ==
    LET kept == SelectSeq(s, LAMBDA c : c \in Digits \cup {"."})
    IN  IF ~Contains(kept, ".") THEN kept \o <<".","0","0">>
        ELSE IF IndexOf(kept, ".") = Len(kept) - 1 THEN kept \o <<"0">>
        ELSE kept

(***************************************************************************)
(* C12: the final_total of every payload is the decimal amount written by  *)
(* the digits and the decimal point of the row's total text, the currency  *)
(* symbol and the grouping separators stripped: "$5,000.00" gives 5000.00, *)
(* "$10,500.50" gives 10500.50 and "7500" gives 7500.00.                   *)
(***************************************************************************)
C12_TotalIsTheWrittenAmount ==
    \A i \in 1..Len(payloads) :
        LET text == payloads[i].amount_currency.s
            cents == payloads[i].final_total
        IN  /\ TwoDecimals(cents) = WrittenNumber(text)
            /\ text = FiveThousand => cents = 500000
            /\ text = TenThousandFiveHundred => cents = 1050050
            /\ text = SevenThousandFiveHundred => cents = 750000

C12_Witness ==
    /\ Finished
    /\ Len(payloads) = 1
    /\ payloads[1].amount_currency.s = TenThousandFiveHundred
    /\ payloads[1].final_total = 1050050
    /\ success_count = 1

(***************************************************************************)
(* C13: after parse -> match -> generate, a row whose total text is        *)
(* non-blank but holds no digit (e.g. "TBD") is a failed row: it carries   *)
(* an error, it has no archive entry, and no payload with a total was ever *)
(* built for it.                                                           *)
(***************************************************************************)
\* a total text that is not blank and has no digit to extract
MalformedTotal(row) ==
    /\ Strip(row.total.s) # <<>>
    /\ \A i \in 1..Len(row.total.s) : row.total.s[i] \notin Digits

C13_MalformedTotalFailsTheRow ==
    (Finished /\ did_match) =>
        \A k \in 1..Len(rows) :
            MalformedTotal(rows[k]) =>
                /\ visited[k].outcome # "success"
                /\ rows[k].errors # <<>>
                /\ EntriesOf(rows[k].row_number) = {}
                /\ PayloadsOf(rows[k].row_number) = {}

C13_Witness ==
    /\ Finished
    /\ did_match
    /\ Len(rows) = 1
    /\ rows[1].total.s = TBD
    /\ rows[1].matched_event # <<>>
    /\ visited[1].outcome = "failed"
    /\ rows[1].errors = <<Err("Generation failed: ", BadAmount)>>
    /\ error_count = 1

(***************************************************************************)
(* C14: with document_type "LOA", a row that is otherwise valid (no error  *)
(* from parsing or matching, a matched event) but has no address is        *)
(* counted as a failure, carries an error and is never handed to a         *)
(* generator; with document_type "LOR" a missing address is no error: the  *)
(* row succeeds when its collaborators do.                                 *)
(***************************************************************************)
NoAddress(row) == ~Truthy(row.official_address)

C14_LoaNeedsAddress ==
    Finished =>
        \A k \in 1..Len(visited) :
            (/\ NoAddress(rows[k])
             /\ ~ArrivedWithErrors(rows[k])
             /\ rows[k].matched_event # <<>>) =>
                /\ document_type = "LOA" =>
                      /\ visited[k].outcome # "success"
                      /\ rows[k].errors # <<>>
                      /\ RendersOf(rows[k].row_number) = {}
                /\ (document_type = "LOR" /\ visited[k].env = "ok"
                        /\ ~get_total_amount(rows[k]).raises /\ rows[k].company_name.t = "str") =>
                      visited[k].outcome = "success"

(***************************************************************************)
(* C15: a signatory key outside the roster resolves to the default signer  *)
(* "sarah" for everything produced for the row: the payload's              *)
(* signature_person is the default signer's and the key handed to the LOA  *)
(* generator is the default signer's key.                                  *)
(***************************************************************************)
\* the roster key a requested key stands for
ResolvedKey(key) == IF key \in DOMAIN AUTHORIZED_SIGNATORIES THEN key ELSE "sarah"

C15_UnknownKeyMeansDefaultSigner ==
    \A i \in 1..Len(renders) :
        renders[i].generator = "generate_loa_documents" =>
            /\ renders[i].payload.signature_person = <<AUTHORIZED_SIGNATORIES[ResolvedKey(signatory_key)]>>
            /\ renders[i].signatory_key = ResolvedKey(signatory_key)

(***************************************************************************)
(* C16: in the column map built for the uploaded headers, no header is the *)
(* value of two different canonical fields.                                *)
(***************************************************************************)
\* the column map parse_excel_file builds for a file
ColumnMapOf(file) == BuildColumnMap(NormalizeColumns(file.columns))

C16_HeaderServesOneField ==
    pc # "upload" =>
        LET column_map == ColumnMapOf(file_obj)
        IN  \A f, g \in DOMAIN column_map : f # g => column_map[f] # column_map[g]

(***************************************************************************)
(* C17: a started generate_batch_documents always returns, and when it has *)
(* returned every row was visited exactly once, in order, the last row     *)
(* included, whatever the rows hold and whichever collaborator failed.     *)
(***************************************************************************)
C17_BatchAlwaysCompletes ==
    /\ (pc = "generating") ~> (pc = "done")
    /\ [](pc = "generating" => Len(visited) < Len(rows) + 1)
    /\ [](Finished =>
            /\ Len(visited) = Len(rows)
            /\ \A k \in 1..Len(rows) : visited[k].row_number = rows[k].row_number
            /\ idx = Len(rows) + 1)

C17_Witness ==
    /\ pc = "done"
    /\ Len(rows) = 2
    /\ Len(visited) = 2
    /\ visited[1].env = "payload_raises"
    /\ visited[2].env = "render_raises"
    /\ error_count = 2

(***************************************************************************)
(* C18: when the required columns are present, parse_excel_file returns    *)
(* one row record for every data row of the table, in table order: a       *)
(* problem with a row is an error on its record, never a missing record.   *)
(***************************************************************************)
RequiredColumnsPresent == \A f \in RequiredFields : ~HeadersLack(f)

C18_EveryDataRowHasItsRecord ==
    (pc # "upload" /\ RequiredColumnsPresent) =>
        /\ Len(rows) = Len(file_obj.data)
        /\ \A k \in 1..Len(rows) : rows[k].row_number = k + 1
        /\ pc = "reported" => report[1].total_rows = Len(file_obj.data)

(***************************************************************************)
(* services/event_database.py: the events table and its operations         *)
(***************************************************************************)
\* ids the AUTOINCREMENT key hands out before the model stops inserting
MaxEventIds == 3
\* data rows of an imported CSV file, entries of a migrated list
MaxCsvRows == 2

\* arguments add_event and update_event are called with
EventArgs ==
    [meeting_name : {GutSummit, GutSummitLower, AbCo}, meeting_date_long : {<<"M","a","y"," ","2">>},
     venue : {<<"O","m","n","i">>, <<"W","e","s","t","i","n">>},
     city_state : {<<"A","u","s","t","i","n">>}, year : {2026}]

\* meeting_name TEXT NOT NULL UNIQUE: another row already holds the name
\* (TEXT compares byte by byte, so letter case counts)
UniqueViolated(table, name, own_id) ==
    \E k \in 1..Len(table) : table[k].meeting_name = name /\ table[k].id # own_id

\* INSERT OR REPLACE: a row holding the name gives way to the new one
InsertOrReplace(db, event) ==
    [table |-> Append(SelectSeq(db.table, LAMBDA r : r.meeting_name # event.meeting_name),
                      [id |-> db.seq + 1] @@ event),
     seq |-> db.seq + 1, raised |-> "none", lastrowid |-> db.seq + 1]

\* an INSERT that stores the row whatever the table holds
InsertUnchecked(db, event) ==
    [table |-> Append(db.table, [id |-> db.seq + 1] @@ event), seq |-> db.seq + 1,
     raised |-> "none", lastrowid |-> db.seq + 1]

\* add_event: INSERT INTO events inside "with conn"; a constraint failure
\* raises sqlite3.IntegrityError and the statement changes nothing
Insert(db, event) ==
    IF UniqueViolated(db.table, event.meeting_name, 0)
    THEN [table |-> db.table, seq |-> db.seq, raised |-> "IntegrityError", lastrowid |-> 0]
    ELSE [table |-> Append(db.table, [id |-> db.seq + 1] @@ event), seq |-> db.seq + 1,
          raised |-> "none", lastrowid |-> db.seq + 1]

\* update_event: UPDATE events SET ... WHERE id = ?
Update(table, id, event) ==
    IF \A k \in 1..Len(table) : table[k].id # id
    THEN [table |-> table, raised |-> "none", rowcount |-> 0]
    ELSE IF UniqueViolated(table, event.meeting_name, id)
    THEN [table |-> table, raised |-> "IntegrityError", rowcount |-> 0]
    ELSE [table |-> [k \in 1..Len(table) |->
                        IF table[k].id = id THEN [id |-> id] @@ event ELSE table[k]],
          raised |-> "none", rowcount |-> 1]

\* the keys of row_lower = {k.lower().strip(): v for k, v in row.items()}
RECURSIVE RowLowerKeys(_)
RowLowerKeys(fieldnames) ==
    IF fieldnames = <<>> THEN <<>>
    ELSE <<Strip(Lower(Head(fieldnames)))>> \o RowLowerKeys(Tail(fieldnames))

\* row_lower.get(key, default): of equal keys the last one holds the value
RowLowerGet(keys, row, key, default) ==
    IF \E i \in 1..Len(keys) : keys[i] = key
    THEN row[CHOOSE i \in 1..Len(keys) :
                keys[i] = key /\ \A j \in (i + 1)..Len(keys) : keys[j] # key]
    ELSE default

\* a loop body whose duplicate branch appends its message without counting it
ImportRowUncounted(db, keys, row, row_num) ==
    LET meeting_name == Strip(RowLowerGet(keys, row,
                                  <<"m","e","e","t","i","n","g"," ","n","a","m","e">>, <<>>))
        date         == Strip(RowLowerGet(keys, row, <<"d","a","t","e">>, <<>>))
        venue        == Strip(RowLowerGet(keys, row, <<"v","e","n","u","e">>, <<>>))
        city_state   == Strip(RowLowerGet(keys, row, <<"c","i","t","y","/","s","t","a","t","e">>,
                                  RowLowerGet(keys, row, <<"c","i","t","y">>, <<>>)))
        year_str     == Strip(RowLowerGet(keys, row, <<"y","e","a","r">>, <<>>))
        added        == Insert(db, [meeting_name |-> meeting_name, meeting_date_long |-> date,
                                    venue |-> venue, city_state |-> city_state,
                                    year |-> DigitsToNat(year_str)])
        Refused(message) == [db |-> db, ok |-> 0, failed |-> 1,
                             error |-> <<[row_num |-> row_num, message |-> message]>>]
    IN  IF <<>> \in {meeting_name, date, venue, city_state, year_str}
        THEN Refused("Missing required fields")
        ELSE IF \E i \in 1..Len(year_str) : year_str[i] \notin Digits
        THEN Refused("Invalid year value")
        ELSE IF added.raised = "IntegrityError"
        THEN [Refused("Duplicate event") EXCEPT !.failed = 0]
        ELSE [db |-> [table |-> added.table, seq |-> added.seq], ok |-> 1, failed |-> 0,
              error |-> <<>>]

\* the body of the for loop of import_from_csv on one data row; int(year_str)
\* gives the number for decimal digits and raises ValueError for other text
ImportRow(db, keys, row, row_num) ==
    LET meeting_name == Strip(RowLowerGet(keys, row,
                                  <<"m","e","e","t","i","n","g"," ","n","a","m","e">>, <<>>))
        date         == Strip(RowLowerGet(keys, row, <<"d","a","t","e">>, <<>>))
        venue        == Strip(RowLowerGet(keys, row, <<"v","e","n","u","e">>, <<>>))
        city_state   == Strip(RowLowerGet(keys, row, <<"c","i","t","y","/","s","t","a","t","e">>,
                                  RowLowerGet(keys, row, <<"c","i","t","y">>, <<>>)))
        year_str     == Strip(RowLowerGet(keys, row, <<"y","e","a","r">>, <<>>))
        added        == Insert(db, [meeting_name |-> meeting_name, meeting_date_long |-> date,
                                    venue |-> venue, city_state |-> city_state,
                                    year |-> DigitsToNat(year_str)])
        Refused(message) == [db |-> db, ok |-> 0, failed |-> 1,
                             error |-> <<[row_num |-> row_num, message |-> message]>>]
    IN  IF <<>> \in {meeting_name, date, venue, city_state, year_str}
        THEN Refused("Missing required fields")
        ELSE IF \E i \in 1..Len(year_str) : year_str[i] \notin Digits
        THEN Refused("Invalid year value")
        ELSE IF added.raised = "IntegrityError"
        THEN Refused("Duplicate event")
        ELSE [db |-> [table |-> added.table, seq |-> added.seq], ok |-> 1, failed |-> 0,
              error |-> <<>>]

\* import_from_csv: the data rows from row number 2 on, each in its own try
RECURSIVE ImportRows(_, _, _, _)
ImportRows(db, keys, data, k) ==
    IF k > Len(data)
    THEN [db |-> db, success_count |-> 0, error_count |-> 0, errors |-> <<>>]
    ELSE LET one  == ImportRow(db, keys, data[k], k + 1)
             rest == ImportRows(one.db, keys, data, k + 1)
         IN  [db |-> rest.db, success_count |-> one.ok + rest.success_count,
              error_count |-> one.failed + rest.error_count,
              errors |-> one.error \o rest.errors]

\* migrate_from_hardcoded_events: add_event_from_object per entry, an
\* IntegrityError counted as a duplicate
RECURSIVE Migrate(_, _, _)
Migrate(db, hardcoded, k) ==
    IF k > Len(hardcoded)
    THEN [db |-> db, success_count |-> 0, duplicate_count |-> 0]
    ELSE LET added == Insert(db, hardcoded[k])
             rest  == Migrate([table |-> added.table, seq |-> added.seq], hardcoded, k + 1)
         IN  IF added.raised = "IntegrityError"
             THEN [rest EXCEPT !.duplicate_count = @ + 1]
             ELSE [rest EXCEPT !.success_count = @ + 1]

RECURSIVE SeqsUpTo(_, _)
SeqsUpTo(S, n) ==
    IF n = 0 THEN {<<>>}
    ELSE LET shorter == SeqsUpTo(S, n - 1)
         IN  shorter \cup {Append(q, x) : q \in {p \in shorter : Len(p) = n - 1}, x \in S}

\* uploaded CSV files: under the documented headers, rows with and without
\* padding, with a blank name, with a year that is no number; one good row
\* under "city" for "city/state" and under a header row without a year
CsvFiles ==
    LET MeetingName == <<"M","e","e","t","i","n","g"," ","N","a","m","e">>
        Date        == <<"D","a","t","e">>
        Venue       == <<"V","e","n","u","e">>
        CityState   == <<"C","i","t","y","/","S","t","a","t","e">>
        City        == <<"C","i","t","y"," ">>
        Year        == <<" ","Y","E","A","R">>
        Row(name, year) == <<name, <<"M","a","y"," ","2">>, <<"O","m","n","i">>,
                             <<"A","u","s","t","i","n">>, year>>
        Year2026    == <<"2","0","2","6">>
        rowset      == {Row(name, Year2026) :
                            name \in {GutSummit, <<" ">> \o GutSummit, GutSummitLower, Blank}}
                       \cup {Row(GutSummit, TBD)}
    IN  {[fieldnames |-> <<MeetingName, Date, Venue, CityState, Year>>, data |-> d] :
            d \in SeqsUpTo(rowset, MaxCsvRows)}
        \cup {[fieldnames |-> f, data |-> <<Row(AbCo, Year2026)>>] :
                f \in {<<MeetingName, Date, Venue, City, Year>>,
                       <<MeetingName, Date, Venue, CityState, City>>}}

\* a call on one of the two stores leaves the letter pipeline and the other
\* store alone
OnStore(where) ==
    /\ pc = where
    /\ UNCHANGED <<file_obj, all_events, rows, errors, parse_row_calls, did_match,
                   document_type, signatory_key, idx, success_count, error_count,
                   zipf, payloads, renders, visited, report, faulty_buffers, pc,
                   other_run>>
    /\ IF where = "database" THEN UNCHANGED <<templates, template_call>>
       ELSE UNCHANGED <<events_table, sqlite_sequence, db_call>>

\* db.add_event(meeting_name, meeting_date_long, venue, city_state, year)
AddEvent ==
    /\ OnStore("database")
    /\ sqlite_sequence < MaxEventIds
    /\ \E event \in EventArgs :
         LET added == Insert([table |-> events_table, seq |-> sqlite_sequence], event)
         IN  /\ events_table' = added.table
             /\ sqlite_sequence' = added.seq
             /\ db_call' = [op |-> "add_event", meeting_name |-> event.meeting_name,
                            raised |-> added.raised]

\* db.update_event(event_id, meeting_name, meeting_date_long, venue, city_state, year)
UpdateEvent ==
    /\ OnStore("database")
    /\ \E id \in 1..MaxEventIds, event \in EventArgs :
         LET updated == Update(events_table, id, event)
         IN  /\ events_table' = updated.table
             /\ db_call' = [op |-> "update_event", meeting_name |-> <<>>,
                            raised |-> updated.raised]
    /\ UNCHANGED sqlite_sequence

\* a delete_event whose WHERE clause reads id <= ?
DeleteEventUpTo ==
    /\ OnStore("database")
    /\ \E id \in 1..MaxEventIds :
         /\ events_table' = SelectSeq(events_table, LAMBDA r : r.id > id)
         /\ db_call' = [op |-> "delete_event", meeting_name |-> <<>>, raised |-> "none",
                        arg |-> id,
                        returned |-> Len(events_table') < Len(events_table)]
    /\ UNCHANGED sqlite_sequence

\* db.delete_event(event_id): DELETE FROM events WHERE id = ?, returning
\* cursor.rowcount > 0
DeleteEvent ==
    /\ OnStore("database")
    /\ \E id \in 1..MaxEventIds :
         /\ events_table' = SelectSeq(events_table, LAMBDA r : r.id # id)
         /\ db_call' = [op |-> "delete_event", meeting_name |-> <<>>, raised |-> "none",
                        arg |-> id,
                        returned |-> Len(events_table') < Len(events_table)]
    /\ UNCHANGED sqlite_sequence

\* db.import_from_csv(csv_file)
ImportFromCsv ==
    /\ OnStore("database")
    /\ \E csv \in CsvFiles :
         /\ sqlite_sequence + Len(csv.data) <= MaxEventIds
         /\ LET done == ImportRows([table |-> events_table, seq |-> sqlite_sequence],
                                   RowLowerKeys(csv.fieldnames), csv.data, 1)
            IN  /\ events_table' = done.db.table
                /\ sqlite_sequence' = done.db.seq
                /\ db_call' = [op |-> "import_from_csv", meeting_name |-> <<>>,
                               raised |-> "none", arg |-> Len(csv.data),
                               returned |-> <<done.success_count, done.error_count,
                                              Len(done.errors)>>]

\* db.migrate_from_hardcoded_events(events)
MigrateFromHardcodedEvents ==
    /\ OnStore("database")
    /\ \E hardcoded \in SeqsUpTo({e \in EventArgs : e.venue = <<"O","m","n","i">>}, MaxCsvRows) :
         LET done == Migrate([table |-> events_table, seq |-> sqlite_sequence], hardcoded, 1)
         IN  /\ done.db.seq <= MaxEventIds
             /\ events_table' = done.db.table
             /\ sqlite_sequence' = done.db.seq
             /\ db_call' = [op |-> "migrate_from_hardcoded_events",
                            meeting_name |-> <<>>, raised |-> "none",
                            arg |-> Len(hardcoded),
                            returned |-> <<done.success_count, done.duplicate_count>>]

(***************************************************************************)
(* services/template_manager.py: the files of templates_dir                *)
(***************************************************************************)
\* templates handed to save_template: replacements under the two default
\* ids and a custom one, is_default left at False or set
TemplateObjects ==
    [template_id : {"default_lor", "default_loa", "custom"}, document_type : {"LOR"},
     version : {"1.0", "2.0"}, is_default : BOOLEAN]

\* get_template: the content of {template_id}.json, None without the file
get_template(dir, template_id) ==
    IF \E t \in dir : t.template_id = template_id
    THEN CHOOSE t \in dir : t.template_id = template_id
    ELSE None

\* save_template: open(file_path, 'w') replaces what the file held
save_template(dir, template) ==
    {t \in dir : t.template_id # template.template_id} \cup {template}

\* _ensure_defaults: a default is written only where get_template finds no file
_ensure_defaults(dir) ==
    LET lor == IF get_template(dir, "default_lor") = None
               THEN save_template(dir, [template_id |-> "default_lor", document_type |-> "LOR",
                                        version |-> "1.0", is_default |-> TRUE])
               ELSE dir
    IN  IF get_template(lor, "default_loa") = None
        THEN save_template(lor, [template_id |-> "default_loa", document_type |-> "LOA",
                                 version |-> "1.0", is_default |-> TRUE])
        ELSE lor

\* delete_template: unlink only if the stored template is not a default
delete_template(dir, template_id) ==
    LET template == get_template(dir, template_id)
    IN  IF template # None /\ ~template.is_default
        THEN [dir |-> dir \ {template}, returned |-> TRUE]
        ELSE [dir |-> dir, returned |-> FALSE]

\* TemplateManager(templates_dir): on the directory as earlier use left it
Construct ==
    /\ OnStore("templates")
    /\ templates' = _ensure_defaults(templates)
    /\ template_call' = [op |-> "__init__", template_id |-> "", returned |-> TRUE,
                         only_deletes |-> TRUE]

\* manager.save_template(template)
SaveTemplate ==
    /\ OnStore("templates")
    /\ template_call.op # "none"
    /\ \E template \in TemplateObjects :
         /\ templates' = save_template(templates, template)
         /\ template_call' = [op |-> "save_template", template_id |-> template.template_id,
                              returned |-> TRUE, only_deletes |-> FALSE]

\* manager.delete_template(template_id)
DeleteTemplate ==
    /\ OnStore("templates")
    /\ template_call.op # "none"
    /\ \E template_id \in {"default_lor", "default_loa", "custom", "absent"} :
         LET done == delete_template(templates, template_id)
         IN  /\ templates' = done.dir
             /\ template_call' = [op |-> "delete_template", template_id |-> template_id,
                                  returned |-> done.returned,
                                  only_deletes |-> template_call.only_deletes]

(***************************************************************************)
(* The two stores, each used on its own                                    *)
(***************************************************************************)
\* a fresh database file after _init_database, or an empty templates_dir
InitStores ==
    /\ pc \in {"database", "templates"}
    /\ file_obj = [columns |-> <<>>, data |-> <<>>]
    /\ all_events = <<>>
    /\ faulty_buffers = FALSE
    /\ rows = <<>>
    /\ errors = <<>>
    /\ parse_row_calls = <<>>
    /\ did_match = FALSE
    /\ document_type = "LOR"
    /\ signatory_key = "sarah"
    /\ idx = 0
    /\ success_count = 0
    /\ error_count = 0
    /\ zipf = <<>>
    /\ payloads = <<>>
    /\ renders = <<>>
    /\ visited = <<>>
    /\ report = <<>>
    /\ events_table = <<>>
    /\ sqlite_sequence = 0
    /\ db_call = [op |-> "none"]
    /\ templates = {}
    /\ template_call = [op |-> "none"]
    /\ other_run = <<>>

NextStores ==
    \/ AddEvent \/ UpdateEvent \/ DeleteEvent \/ ImportFromCsv \/ MigrateFromHardcodedEvents
    \/ Construct \/ SaveTemplate \/ DeleteTemplate

SpecStores == InitStores /\ [][NextStores]_vars

(***************************************************************************)
(* C19                                                                     *)
(***************************************************************************)
\* C19: whatever add_event, update_event, delete_event, import_from_csv and
\* migrate_from_hardcoded_events calls were made, no two stored events have
\* the same meeting_name; and an add_event for a name that is already stored
\* ends in an integrity error with the stored events, their number and their
\* contents, as they were.
C19_NamesStayUnique ==
    /\ [](\A j, k \in 1..Len(events_table) :
            events_table[j].meeting_name = events_table[k].meeting_name => j = k)
    /\ [][(/\ db_call'.op = "add_event"
           /\ \E k \in 1..Len(events_table) :
                events_table[k].meeting_name = db_call'.meeting_name)
          => (db_call'.raised = "IntegrityError" /\ events_table' = events_table)]_vars

\* a second add_event for a stored name has been turned down
C19_Witness ==
    /\ db_call.op = "add_event"
    /\ db_call.raised = "IntegrityError"
    /\ \E k \in 1..Len(events_table) : events_table[k].meeting_name = db_call.meeting_name
    /\ Len(events_table) >= 2

(***************************************************************************)
(* C20                                                                     *)
(***************************************************************************)
\* C20: delete_template called with the id of a template stored with
\* is_default true returns False and leaves the stored templates as they
\* were; and once a manager is constructed, as long as only delete_template
\* calls follow, get_template("default_lor") and get_template("default_loa")
\* both return a template.
C20_DefaultsSurviveDeletes ==
    /\ [][(/\ template_call'.op = "delete_template"
           /\ \E t \in templates : t.template_id = template_call'.template_id /\ t.is_default)
          => (template_call'.returned = FALSE /\ templates' = templates)]_vars
    /\ []((template_call.op # "none" /\ template_call.only_deletes)
            => \A id \in {"default_lor", "default_loa"} : get_template(templates, id) # None)

(***************************************************************************)
(* C21                                                                     *)
(***************************************************************************)
\* C21: delete_event returns True exactly when an event with the given id
\* was stored. After True, get_event_by_id finds no row with that id,
\* count_events is one less, and every other stored event is still there,
\* unchanged and in its place; after False the stored events are as before.
C21_DeleteRemovesExactlyThatEvent ==
    [][db_call'.op = "delete_event" =>
        LET id     == db_call'.arg
            stored == \E k \in 1..Len(events_table) : events_table[k].id = id
            others == SelectSeq(events_table, LAMBDA r : r.id # id)
        IN  /\ db_call'.returned = stored
            /\ stored =>
                 /\ \A k \in 1..Len(events_table') : events_table'[k].id # id
                 /\ Len(events_table') = Len(events_table) - 1
                 /\ events_table' = others
            /\ ~stored => events_table' = events_table]_vars

\* a stored event has been deleted while another one stayed
C21_Witness ==
    /\ db_call.op = "delete_event"
    /\ db_call.returned
    /\ Len(events_table) >= 1
    /\ \E k \in 1..Len(events_table) : events_table[k].id > db_call.arg

(***************************************************************************)
(* C22                                                                     *)
(***************************************************************************)
\* C22: when parse_excel_file has returned, a canonical field that several
\* uploaded headers could satisfy is mapped to the one that stands first in
\* the table, wherever the synonym table lists it.
C22_FirstTableColumnWins ==
    (pc = "rejected" \/ (pc = "parsed" /\ ~did_match)) =>
        LET columns    == NormalizeColumns(file_obj.columns) \o <<>>
            column_map == ColumnMapOf(file_obj)
        IN  \A field \in Fields :
              LET hits == {i \in 1..Len(columns) : Contains(Variations(field), columns[i])}
              IN  hits # {} =>
                    /\ field \in DOMAIN column_map
                    /\ column_map[field] = columns[CHOOSE i \in hits : \A j \in hits : i <= j]

\* parse_excel_file has mapped a table in which a later-listed variant of
\* total stands before an earlier-listed one
C22_Witness ==
    /\ pc # "upload"
    /\ LET columns == NormalizeColumns(file_obj.columns)
       IN  \E i, j \in 1..Len(columns) :
             /\ i < j
             /\ columns[i] = <<"a","m","o","u","n","t">>
             /\ columns[j] = <<"t","o","t","a","l">>
             /\ ColumnMapOf(file_obj)["total"] = columns[i]

(***************************************************************************)
(* C23                                                                     *)
(***************************************************************************)
\* C23: within one generate_batch_documents call no row is handed to a
\* generator twice. A row whose rendering failed has its one call, carries
\* the failure and is not visited again; a row skipped for its errors or for
\* its missing match has no call at all.
C23_RenderedAtMostOnce ==
    /\ \A i, j \in 1..Len(renders) : renders[i].row_number = renders[j].row_number => i = j
    /\ \A i, j \in 1..Len(visited) : visited[i].row_number = visited[j].row_number => i = j
    /\ \A v \in 1..Len(visited) :
         LET calls == {c \in 1..Len(renders) : renders[c].row_number = visited[v].row_number}
         IN  /\ visited[v].outcome \in {"skipped_errors", "skipped_unmatched"} => calls = {}
             /\ (visited[v].outcome = "failed" /\ visited[v].env = "render_raises") =>
                    /\ Cardinality(calls) = 1
                    /\ rows[v].errors # <<>>
                    /\ IsGenerationError(LastError(rows[v]))
                    /\ error_count >= 1

\* a batch has returned in which one row's rendering failed and another row
\* was skipped for its errors
C23_Witness ==
    /\ pc = "done"
    /\ \E v, w \in 1..Len(visited) :
         /\ visited[v].outcome = "failed" /\ visited[v].env = "render_raises"
         /\ visited[w].outcome = "skipped_errors"
    /\ Len(renders) >= 1

C25_DetailIsTheMessage ==
    \A k \in 1..Len(visited) :
        (visited[k].outcome = "failed" /\ visited[k].env = "render_raises")
            => LastError(rows[k]) = Err("", CollaboratorError)

\* C25, amended: the detail recorded for a row whose rendering failed with
\* message M is the text "Generation failed: " followed by M as the
\* collaborator gave it; it is the last error of that row and of no other.
C25_DetailIsThePrefixedMessage ==
    \A k \in 1..Len(visited) :
        /\ (visited[k].outcome = "failed" /\ visited[k].env = "render_raises")
              => /\ rows[k].errors # <<>>
                 /\ LastError(rows[k]) = Err("Generation failed: ", CollaboratorError)
        /\ visited[k].outcome # "failed"
              => \A e \in 1..Len(rows[k].errors) : ~IsGenerationError(rows[k].errors[e])

\* a generator has raised for a row of a batch that went on to its end
C25_Witness ==
    /\ pc = "done"
    /\ \E k \in 1..Len(visited) :
         /\ visited[k].outcome = "failed" /\ visited[k].env = "render_raises"
         /\ Len(renders) >= 1
         /\ LastError(rows[k]).arg = CollaboratorError

(***************************************************************************)
(* C26: in _parse_row, an optional field whose column is unmapped or whose *)
(* cell is empty or whitespace-only is None on the row, and the optional   *)
(* fields add no error: the errors of the row are those of the required    *)
(* fields only.                                                            *)
(***************************************************************************)
C26_BlankOptionalIsAbsent ==
    (pc = "parsed" /\ ~did_match) =>
        \A k \in 1..Len(rows) :
            /\ \A f \in {"expected_attendance", "date", "city", "venue",
                         "official_address", "amount", "discount"} :
                   (HeadersLack(f) \/ BlankCell(DataCell(rows[k], f))) => rows[k][f] = None
            /\ Len(rows[k].errors) =
                   Cardinality({f \in RequiredFields : Deficient(f, DataCell(rows[k], f))})

(***************************************************************************)
(* C27: a row that generate_batch_documents counted as a failure has no    *)
(* entry in the archive, whatever the point of the loop body at which it   *)
(* failed: the archive holds entries of rows counted as successes only.    *)
(***************************************************************************)
C27_FailedRowsLeaveNoEntry ==
    /\ \A k \in 1..Len(visited) :
          visited[k].outcome # "success" => EntriesOf(rows[k].row_number) = {}
    /\ \A i \in 1..Len(zipf) :
          \E k \in 1..Len(visited) :
              /\ rows[k].row_number = zipf[i].row_number
              /\ visited[k].outcome = "success"

(***************************************************************************)
(* C28: after generate_batch_documents has returned, the rows it counted   *)
(* in error_count are the rows with a non-empty errors list and the rows   *)
(* it counted in success_count are the rows with an empty one, so the      *)
(* counts of generate_validation_report equal the returned counts.         *)
(***************************************************************************)
C28_CountsAgreeWithErrors ==
    Finished =>
        /\ \A k \in 1..Len(visited) :
              /\ visited[k].outcome = "success" => rows[k].errors = <<>>
              /\ visited[k].outcome # "success" => rows[k].errors # <<>>
        /\ generate_validation_report(rows).error_count = error_count
        /\ generate_validation_report(rows).valid_count = success_count
        /\ pc = "reported" =>
              /\ report[1].error_count = error_count
              /\ report[1].valid_count = success_count

(***************************************************************************)
(* C29: import_from_csv goes through the data rows once and in order. A    *)
(* row is stored when its five fields are present, its year is a number    *)
(* and its name is neither in the table nor on an earlier complete row;    *)
(* every other row is one error carrying its row number (the first data    *)
(* row is row 2) and the import goes on. On return success_count +         *)
(* error_count is the number of data rows, there are error_count messages, *)
(* and the table is the old one followed by the success_count stored rows. *)
(* Stated of every file that can be imported into the table as it stands,  *)
(* and of every import step taken.                                         *)
(***************************************************************************)
C29_ImportAccountsForEveryRow ==
    /\ [](pc = "database" =>
          \A csv \in {c \in CsvFiles : sqlite_sequence + Len(c.data) <= MaxEventIds} :
            LET keys == RowLowerKeys(csv.fieldnames)
                done == ImportRows([table |-> events_table, seq |-> sqlite_sequence],
                                   keys, csv.data, 1)
                n    == Len(csv.data)
                Field(k, key) == Strip(RowLowerGet(keys, csv.data[k], key, <<>>))
                facts ==
                    [k \in 1..n |->
                        LET name == Field(k, <<"m","e","e","t","i","n","g"," ","n","a","m","e">>)
                            year == Field(k, <<"y","e","a","r">>)
                            city == IF Contains(keys, <<"c","i","t","y","/","s","t","a","t","e">>)
                                    THEN Field(k, <<"c","i","t","y","/","s","t","a","t","e">>)
                                    ELSE Field(k, <<"c","i","t","y">>)
                            gaps == <<>> \in {name, Field(k, <<"d","a","t","e">>),
                                              Field(k, <<"v","e","n","u","e">>), city, year}
                        IN  [name     |-> name,
                             missing  |-> gaps,
                             bad_year |-> ~gaps /\ \E i \in 1..Len(year) : year[i] \notin Digits]]
                    \o <<>>
                Missing(k)   == facts[k].missing
                BadYear(k)   == facts[k].bad_year
                Complete(k)  == ~Missing(k) /\ ~BadYear(k)
                Duplicate(k) == /\ Complete(k)
                                /\ \/ UniqueViolated(events_table, facts[k].name, 0)
                                   \/ \E j \in 1..(k - 1) :
                                         Complete(j) /\ facts[j].name = facts[k].name
                Good(k)      == Complete(k) /\ ~Duplicate(k)
                good == SelectSeq([k \in 1..n |-> k], Good)
                bad  == SelectSeq([k \in 1..n |-> k], LAMBDA k : ~Good(k))
            IN  /\ done.success_count = Len(good)
                /\ done.error_count = Len(bad)
                /\ done.success_count + done.error_count = n
                /\ Len(done.errors) = done.error_count
                /\ \A i \in 1..Len(bad) :
                      done.errors[i] =
                          [row_num |-> bad[i] + 1,
                           message |-> IF Missing(bad[i]) THEN "Missing required fields"
                                       ELSE IF BadYear(bad[i]) THEN "Invalid year value"
                                       ELSE "Duplicate event"]
                /\ Len(done.db.table) = Len(events_table) + done.success_count
                /\ SubSeq(done.db.table, 1, Len(events_table)) = events_table
                /\ \A i \in 1..Len(good) :
                      done.db.table[Len(events_table) + i].meeting_name = facts[good[i]].name)
    /\ [][db_call'.op = "import_from_csv" =>
            /\ db_call'.returned[1] + db_call'.returned[2] = db_call'.arg
            /\ db_call'.returned[3] = db_call'.returned[2]
            /\ Len(events_table') = Len(events_table) + db_call'.returned[1]
            /\ SubSeq(events_table', 1, Len(events_table)) = events_table]_vars

\* an import of two rows that stored one and refused the other
C29_Witness ==
    /\ db_call.op = "import_from_csv"
    /\ db_call.arg = 2
    /\ db_call.returned = <<1, 1, 1>>
    /\ Len(events_table) >= 2

(***************************************************************************)
(* C30: migrate_from_hardcoded_events returns success_count and            *)
(* duplicate_count that add up to the number of events given, the table    *)
(* growing by success_count; run a second time with the same list on the   *)
(* database the first run left, it adds nothing, counts every event as a   *)
(* duplicate and leaves the database (rows and AUTOINCREMENT counter) as   *)
(* it was. Stated of every list the table as it stands has ids for, and of *)
(* every migrate step taken.                                               *)
(***************************************************************************)
C30_MigrateIsIdempotent ==
    /\ [](pc = "database" =>
          \A hardcoded \in SeqsUpTo({e \in EventArgs : e.venue = <<"O","m","n","i">>},
                                    MaxCsvRows) :
                LET first  == Migrate([table |-> events_table, seq |-> sqlite_sequence],
                                      hardcoded, 1)
                    second == Migrate(first.db, hardcoded, 1)
                IN  first.db.seq <= MaxEventIds =>
                    /\ first.success_count + first.duplicate_count = Len(hardcoded)
                    /\ Len(first.db.table) = Len(events_table) + first.success_count
                    /\ \A k \in 1..Len(hardcoded) :
                          UniqueViolated(first.db.table, hardcoded[k].meeting_name, 0)
                    /\ second.success_count = 0
                    /\ second.duplicate_count = Len(hardcoded)
                    /\ second.db = first.db)
    /\ [][db_call'.op = "migrate_from_hardcoded_events" =>
            /\ db_call'.returned[1] + db_call'.returned[2] = db_call'.arg
            /\ Len(events_table') = Len(events_table) + db_call'.returned[1]
            /\ SubSeq(events_table', 1, Len(events_table)) = events_table
            /\ db_call'.returned[1] = 0 =>
                  events_table' = events_table /\ sqlite_sequence' = sqlite_sequence]_vars

\* a migration of two events onto a table that holds both: nothing added,
\* two duplicates
C30_Witness ==
    /\ db_call.op = "migrate_from_hardcoded_events"
    /\ db_call.arg = 2
    /\ db_call.returned = <<0, 2>>
    /\ Len(events_table) >= 2

====
